---- MODULE Spec2Model ----
(***************************************************************************)
(* A model of backend/main.py: the FastAPI application with the routes     *)
(* GET / (read_root) and GET /api/field (get_field).                       *)
(*                                                                         *)
(* Floats.  A Python/numpy float is modelled as a fixed-point number: the  *)
(* integer n stands for n / Scale.  The format is finite: magnitudes above *)
(* FloatMax are not representable, an operation whose result exceeds it    *)
(* gives an infinity, as the double's does beyond 1.797e308, and the       *)
(* infinities and NaN propagate as IEEE 754 prescribes.  Every operation   *)
(* rounds its exact result to the nearest representable value.             *)
(***************************************************************************)
EXTENDS Integers, Sequences, FiniteSets, TLC

Scale == 10000
FloatMax == Scale * Scale
PInf == FloatMax + 1
NInf == -PInf
NaN == FloatMax + 2

IsNaN(a) == a = NaN
IsInf(a) == a = PInf \/ a = NInf
IsFinite(a) == -FloatMax <= a /\ a <= FloatMax

Abs(a) == IF a < 0 THEN -a ELSE a
Sgn(a) == IF a < 0 THEN -1 ELSE IF a > 0 THEN 1 ELSE 0

\* n / d rounded to the nearest integer, halves away from zero (d > 0).
RoundDiv(n, d) == Sgn(n) * ((2 * Abs(n) + d) \div (2 * d))

\* An exact result v outside the finite range becomes an infinity.
Overflow(v) == IF v > FloatMax THEN PInf ELSE IF v < -FloatMax THEN NInf ELSE v

FNeg(a) == IF IsNaN(a) THEN NaN ELSE -a

\* float + float
FAdd(a, b) ==
    IF IsNaN(a) \/ IsNaN(b) THEN NaN
    ELSE IF IsInf(a) /\ IsInf(b) THEN (IF a = b THEN a ELSE NaN)
    ELSE IF IsInf(a) THEN a
    ELSE IF IsInf(b) THEN b
    ELSE Overflow(a + b)

\* float - float
FSub(a, b) == FAdd(a, FNeg(b))

\* The product of two finite floats: |a| * |b| / Scale rounded to nearest,
\* computed on the halves of the operands so that no intermediate value
\* leaves the machine integers.
MulFin(a, b) ==
    LET p == Abs(a)
        q == Abs(b)
        ph == p \div Scale
        pl == p % Scale
        qh == q \div Scale
        ql == q % Scale
        sg == Sgn(a) * Sgn(b)
    IN  IF ph * qh > FloatMax \div Scale THEN (IF sg < 0 THEN NInf ELSE PInf)
        ELSE LET m == ph * qh * Scale + ph * ql + pl * qh
                      + (pl * ql + Scale \div 2) \div Scale
             IN  Overflow(sg * m)

\* float * float
FMul(a, b) ==
    IF IsNaN(a) \/ IsNaN(b) THEN NaN
    ELSE IF IsInf(a) \/ IsInf(b)
         THEN (IF a = 0 \/ b = 0 THEN NaN
               ELSE IF Sgn(a) * Sgn(b) < 0 THEN NInf ELSE PInf)
    ELSE MulFin(a, b)

\* The largest r in lo..hi with r * r <= n (lo * lo <= n).
RECURSIVE SqrtSearch(_, _, _)
SqrtSearch(n, lo, hi) ==
    IF lo >= hi THEN lo
    ELSE LET mid == (lo + hi + 1) \div 2
         IN  IF mid * mid <= n THEN SqrtSearch(n, mid, hi)
             ELSE SqrtSearch(n, lo, mid - 1)

\* The integer nearest to the square root of n >= 0.
RoundSqrt(n) ==
    LET r == SqrtSearch(n, 0, 46340)
    IN  IF n - r * r > r THEN r + 1 ELSE r

\* np.sqrt
FSqrt(a) ==
    IF IsNaN(a) \/ a < 0 THEN NaN
    ELSE IF a = PInf THEN PInf
    ELSE IF a <= 2 * Scale * 10 THEN RoundSqrt(a * Scale)
    ELSE RoundSqrt(a) * RoundSqrt(Scale)

\* np.pi
Pi == 31416

\* cos on [0, pi/2]: the Taylor series to the term x^10 / 10!.
CosQuadrant(v) ==
    LET x2 == RoundDiv(v * v, Scale)
        t1 == RoundDiv(x2, 2)
        t2 == RoundDiv(t1 * x2, 12 * Scale)
        t3 == RoundDiv(t2 * x2, 30 * Scale)
        t4 == RoundDiv(t3 * x2, 56 * Scale)
        t5 == RoundDiv(t4 * x2, 90 * Scale)
    IN  Scale - t1 + t2 - t3 + t4 - t5

\* cos of a finite float: reduced to [0, pi/2] by cos(-a) = cos(a),
\* cos(a + 2 pi) = cos(a), cos(2 pi - a) = cos(a), cos(pi - a) = -cos(a).
CosFin(a) ==
    LET r == Abs(a) % (2 * Pi)
        h == IF r > Pi THEN 2 * Pi - r ELSE r
    IN  IF 2 * h > Pi THEN -CosQuadrant(Pi - h) ELSE CosQuadrant(h)

\* np.cos: NaN for NaN and for the infinities (an invalid operation).
FCos(a) == IF IsNaN(a) \/ IsInf(a) THEN NaN ELSE CosFin(a)


(***************************************************************************)
(* Query strings.  A parameter is absent (Missing) or carries a text; the  *)
(* framework coerces the text to a float (tension: float = Query(...)).    *)
(* FloatLiteral gives the float each numeric text denotes; a text outside  *)
(* its domain is not a number.  "1e308" denotes 0.556 of the largest       *)
(* finite value, as 1e308 does among the doubles (1e308 / 1.797e308).      *)
(***************************************************************************)
Missing == "<missing>"

FloatLiteral ==
    "0.0" :> 0 @@ "0.5" :> 5000 @@ "1.0" :> 10000 @@ "-1.0" :> -10000
    @@ "2.0" :> 20000 @@ "10.0" :> 100000
    @@ "17.0" :> 170000 @@ "1e308" :> (FloatMax \div 10000) * 5563

\* CoerceFloat with the parameters optional, as Query(0.0) in place of
\* Query(...) would make them: an absent parameter is 0.0.
CoerceFloat_default(text) ==
    IF text = Missing THEN [ok |-> TRUE, value |-> 0]
    ELSE IF text \notin DOMAIN FloatLiteral
         THEN [ok |-> FALSE, error |-> "float_parsing"]
    ELSE [ok |-> TRUE, value |-> FloatLiteral[text]]

\* The coercion of one query parameter: the float, or the error reported.
CoerceFloat(text) ==
    IF text = Missing THEN [ok |-> FALSE, error |-> "missing"]
    ELSE IF text \notin DOMAIN FloatLiteral
         THEN [ok |-> FALSE, error |-> "float_parsing"]
    ELSE [ok |-> TRUE, value |-> FloatLiteral[text]]

(***************************************************************************)
(* get_field: the grid.  size, x, y, X, Y and R do not depend on the       *)
(* request; arrays are functions on 0..size-1.                             *)
(***************************************************************************)
size == 50

\* np.linspace(start, stop, num): num evenly spaced samples, the last one
\* stop itself.  numpy multiplies the index by the step
\* (stop - start) / (num - 1); the double's rounding of the step is far
\* below the resolution of this format, so the index is multiplied first and
\* the quotient rounded once: each sample is the float nearest to
\* start + n (stop - start) / (num - 1).
linspace(start, stop, num) ==
    [n \in 0..(num - 1) |->
        IF n = num - 1 THEN stop
        ELSE FAdd(start, RoundDiv(n * (stop - start), num - 1))]

x == linspace(-Scale, Scale, size)
y == linspace(-Scale, Scale, size)

\* meshgrid with indexing='ij': X[i][j] = xv[i], Y[i][j] = yv[j].
meshgrid_ij(xv, yv) ==
    [X |-> [i \in DOMAIN xv |-> [j \in DOMAIN yv |-> xv[i]]],
     Y |-> [i \in DOMAIN xv |-> [j \in DOMAIN yv |-> yv[j]]]]

\* np.meshgrid(xv, yv), indexing 'xy': X[i][j] = xv[j], Y[i][j] = yv[i].
meshgrid(xv, yv) ==
    [X |-> [i \in DOMAIN yv |-> [j \in DOMAIN xv |-> xv[j]]],
     Y |-> [i \in DOMAIN yv |-> [j \in DOMAIN xv |-> yv[i]]]]

X == meshgrid(x, y).X
Y == meshgrid(x, y).Y

\* Radius with the square of Y forgotten: np.sqrt(X**2 + Y).
Radius_unsquared(XX, YY) ==
    [i \in DOMAIN XX |-> [j \in DOMAIN XX[i] |->
        FSqrt(FAdd(FMul(XX[i][j], XX[i][j]), YY[i][j]))]]

\* R = np.sqrt(X**2 + Y**2)
Radius(XX, YY) ==
    [i \in DOMAIN XX |-> [j \in DOMAIN XX[i] |->
        FSqrt(FAdd(FMul(XX[i][j], XX[i][j]), FMul(YY[i][j], YY[i][j])))]]

R == Radius(X, Y)

\* Amplitude without the factor 0.9: 1.0 - tension.
Amplitude_linear(tension) == FSub(Scale, tension)

\* amplitude = 1.0 - (tension * 0.9)
Amplitude(tension) == FSub(Scale, FMul(tension, (9 * Scale) \div 10))

\* Wave with a node at the center: amplitude * sin(frequency * R * pi),
\* sin(a) = cos(a - pi/2).
Wave_sin(amplitude, frequency, r) ==
    FMul(amplitude,
         FCos(FSub(FMul(FMul(frequency, r), Pi), Pi \div 2)))

\* One cell of Z = amplitude * np.cos(frequency * R * np.pi)
Wave(amplitude, frequency, r) ==
    FMul(amplitude, FCos(FMul(FMul(frequency, r), Pi)))

\* Z, elementwise over the array RR
Field(tension, frequency, RR) ==
    LET amplitude == Amplitude(tension)
    IN  [i \in DOMAIN RR |-> [j \in DOMAIN RR[i] |->
            Wave(amplitude, frequency, RR[i][j])]]

\* Z.flatten().tolist(): C order, the last index varying fastest.  The list
\* is a sequence: its element k + 1 is the list's index k.
flatten(A) ==
    LET rows == Cardinality(DOMAIN A)
        cols == Cardinality(DOMAIN A[0])
    IN  [k \in 1..(rows * cols) |-> A[(k - 1) \div cols][(k - 1) % cols]]

\* get_field echoing the tension clamped to [0, 1].
get_field_clamped(tension, frequency) ==
    [z_values  |-> flatten(Field(tension, frequency, R)),
     size      |-> size,
     tension   |-> IF tension < 0 THEN 0
                   ELSE IF tension > Scale THEN Scale ELSE tension,
     frequency |-> frequency]

\* The value get_field returns.
get_field(tension, frequency) ==
    [z_values  |-> flatten(Field(tension, frequency, R)),
     size      |-> size,
     tension   |-> tension,
     frequency |-> frequency]

\* The value read_root returns.
read_root == [message |-> "Tone Field Physics Engine Ready"]

(***************************************************************************)
(* The application.  Each worker serves one request at a time: the sync    *)
(* route functions run in the framework's thread pool.                     *)
(***************************************************************************)
VARIABLES pc, req, args, ret, resp
vars == <<pc, req, args, ret, resp>>

None == [none |-> TRUE]

\* The query texts of the requests.
TensionTexts ==
    {Missing, "abc", "0.0", "0.5", "1.0", "-1.0", "2.0", "1e308"}
FrequencyTexts ==
    {Missing, "", "0.0", "1.0", "-1.0", "10.0", "17.0", "1e308"}

\* The requests of the concurrent runs.
ConcTensionTexts == {"0.5"}
ConcFrequencyTexts == {Missing, "0.0", "10.0"}

\* Whether every float of the returned content is finite: json.dumps is
\* called with allow_nan=False and raises ValueError on nan and inf.
JsonCompliant(content) ==
    /\ \A k \in DOMAIN content.z_values : IsFinite(content.z_values[k])
    /\ IsFinite(content.tension)
    /\ IsFinite(content.frequency)

\* The requests with query texts from TS and FS: GET / without a query, and
\* GET /api/field with each pair of texts.
Requests(TS, FS) ==
    {[path |-> "/", tension |-> Missing, frequency |-> Missing]}
    \cup [path : {"/api/field"}, tension : TS, frequency : FS]

\* A request arrives at an idle worker.
Receive(w, TS, FS) ==
    /\ pc[w] = "idle"
    /\ \E r \in Requests(TS, FS) : req' = [req EXCEPT ![w] = r]
    /\ pc' = [pc EXCEPT ![w] = "received"]
    /\ UNCHANGED <<args, ret, resp>>

\* GET /: read_root, and its JSON response.
ReadRoot(w) ==
    /\ pc[w] = "received"
    /\ req[w].path = "/"
    /\ resp' = [resp EXCEPT ![w] = [status |-> 200, body |-> read_root]]
    /\ pc' = [pc EXCEPT ![w] = "done"]
    /\ UNCHANGED <<req, args, ret>>

\* GET /api/field: both parameters are required floats.  A missing or
\* non-numeric one ends the request with 422 before get_field is called.
Validate(w) ==
    /\ pc[w] = "received"
    /\ req[w].path = "/api/field"
    /\ LET t == CoerceFloat(req[w].tension)
           f == CoerceFloat(req[w].frequency)
       IN  IF t.ok /\ f.ok
           THEN /\ args' = [args EXCEPT ![w] =
                              [tension |-> t.value, frequency |-> f.value]]
                /\ pc' = [pc EXCEPT ![w] = "validated"]
                /\ UNCHANGED resp
           ELSE /\ resp' = [resp EXCEPT ![w] =
                     [status |-> 422,
                      body |-> [detail |->
                         (IF t.ok THEN {} ELSE {<<"tension", t.error>>})
                         \cup (IF f.ok THEN {} ELSE {<<"frequency", f.error>>})]]]
                /\ pc' = [pc EXCEPT ![w] = "done"]
                /\ UNCHANGED args
    /\ UNCHANGED <<req, ret>>

\* get_field reading its frequency from a value shared by the workers: the
\* one stored by the lowest worker that holds parameters.
GetField_shared(w) ==
    /\ pc[w] = "validated"
    /\ LET holders == {v \in DOMAIN pc : args[v] # None}
           first == CHOOSE v \in holders : \A u \in holders : v <= u
       IN  ret' = [ret EXCEPT ![w] =
                     get_field(args[w].tension, args[first].frequency)]
    /\ pc' = [pc EXCEPT ![w] = "returned"]
    /\ UNCHANGED <<req, args, resp>>

\* The body of get_field, on the coerced parameters.
GetField(w) ==
    /\ pc[w] = "validated"
    /\ ret' = [ret EXCEPT ![w] = get_field(args[w].tension, args[w].frequency)]
    /\ pc' = [pc EXCEPT ![w] = "returned"]
    /\ UNCHANGED <<req, args, resp>>

\* The returned dict is rendered as the JSON response; a value JSON cannot
\* carry makes the rendering raise, and the request ends with 500.
Render(w) ==
    /\ pc[w] = "returned"
    /\ resp' = [resp EXCEPT ![w] =
                  IF JsonCompliant(ret[w])
                  THEN [status |-> 200, body |-> ret[w]]
                  ELSE [status |-> 500, body |-> [error |-> "Internal Server Error"]]]
    /\ pc' = [pc EXCEPT ![w] = "done"]
    /\ UNCHANGED <<req, args, ret>>

\* The response is sent; nothing of the request is kept.
Close(w) ==
    /\ pc[w] = "done"
    /\ pc' = [pc EXCEPT ![w] = "idle"]
    /\ req' = [req EXCEPT ![w] = None]
    /\ args' = [args EXCEPT ![w] = None]
    /\ ret' = [ret EXCEPT ![w] = None]
    /\ resp' = [resp EXCEPT ![w] = None]

InitWorkers(W) ==
    /\ pc = [w \in W |-> "idle"]
    /\ req = [w \in W |-> None]
    /\ args = [w \in W |-> None]
    /\ ret = [w \in W |-> None]
    /\ resp = [w \in W |-> None]

\* One worker, the full set of requests.
Init == InitWorkers({1})

Next ==
    \/ \E w \in DOMAIN pc : Receive(w, TensionTexts, FrequencyTexts)
    \/ \E w \in DOMAIN pc : ReadRoot(w)
    \/ \E w \in DOMAIN pc : Validate(w)
    \/ \E w \in DOMAIN pc : GetField(w)
    \/ \E w \in DOMAIN pc : Render(w)
    \/ \E w \in DOMAIN pc : Close(w)

Spec == Init /\ [][Next]_vars

\* Concurrent workers, fewer requests.
MaxWorkers == 2

InitConc == InitWorkers(1..MaxWorkers)

NextConc ==
    \/ \E w \in DOMAIN pc : Receive(w, ConcTensionTexts, ConcFrequencyTexts)
    \/ \E w \in DOMAIN pc : ReadRoot(w)
    \/ \E w \in DOMAIN pc : Validate(w)
    \/ \E w \in DOMAIN pc : GetField(w)
    \/ \E w \in DOMAIN pc : Render(w)
    \/ \E w \in DOMAIN pc : Close(w)

SpecConc == InitConc /\ [][NextConc]_vars


(***************************************************************************)
(* The properties.                                                         *)
(***************************************************************************)
Workers == DOMAIN pc

\* Worker w holds a request to GET /api/field.
FieldRequest(w) == req[w] # None /\ req[w].path = "/api/field"

\* A query text that is present and denotes a float.
Numeric(text) == text # Missing /\ text \in DOMAIN FloatLiteral

\* Worker w's request passes the coercion of both parameters.
Coercible(w) == Numeric(req[w].tension) /\ Numeric(req[w].frequency)

\* get_field has run for worker w's request and returned.
Returned(w) == pc[w] \in {"returned", "done"} /\ ret[w] # None

\* Worker w's request has ended with the JSON body of get_field.
Succeeded(w) ==
    pc[w] = "done" /\ resp[w].status = 200 /\ "z_values" \in DOMAIN resp[w].body

\* -1 + 2 n / 49, rounded to the nearest float.
GridCoord(n) == RoundDiv((2 * n - 49) * Scale, 49)

\* 1.0 - tension * 0.9 for a finite tension, rounded to the nearest float.
ExpectedAmplitude(tension) == Scale - RoundDiv(9 * tension, 10)

Center == {24, 25}

\* C1: every request to GET /api/field whose two parameters pass the float
\* coercion ends in a response with size = 50 and 2500 z_values.
C1_EveryCoerciblePairGetsGrid ==
    \A w \in Workers :
        (FieldRequest(w) /\ Coercible(w) /\ pc[w] = "done")
            => /\ Succeeded(w)
               /\ resp[w].body.size = 50
               /\ Len(resp[w].body.z_values) = 2500

\* C2: z_values is the row-major flattening: index k = i*50 + j holds the
\* field value at (x[j], y[i]) with x[n] = y[n] = -1 + 2n/49; the row index
\* selects y and the column index selects x.
C2_RowMajor ==
    /\ \A i, j \in 0..49 : X[i][j] = GridCoord(j) /\ Y[i][j] = GridCoord(i)
    /\ \A w \in Workers :
        Returned(w) =>
            /\ Len(ret[w].z_values) = 2500
            /\ \A i, j \in 0..49 :
                ret[w].z_values[i * 50 + j + 1] =
                    FMul(Amplitude(args[w].tension),
                         FCos(FMul(FMul(args[w].frequency,
                                        FSqrt(FAdd(FMul(GridCoord(j), GridCoord(j)),
                                                   FMul(GridCoord(i), GridCoord(i))))),
                                   Pi)))
            /\ Succeeded(w) => resp[w].body.z_values = ret[w].z_values

\* A served field whose rows differ from its columns' coordinates in sign
\* only: the flattening of a grid with non-zero values.
C2_Witness ==
    \E w \in Workers :
        /\ Succeeded(w)
        /\ args[w].tension = 0 /\ args[w].frequency = Scale
        /\ resp[w].body.z_values[0 * 50 + 24 + 1] # resp[w].body.z_values[1]
        /\ resp[w].body.z_values[24 * 50 + 49 + 1] =
               resp[w].body.z_values[0 * 50 + 24 + 1]

\* C3: a request to GET /api/field with tension or frequency missing or not
\* coercible to a float ends with 422, without get_field having run and
\* without a z_values field; a request with both parameters numeric never
\* gets 422.
C3_Validation ==
    \A w \in Workers :
        (FieldRequest(w) /\ pc[w] # "received") =>
            IF Coercible(w)
            THEN /\ args[w] # None
                 /\ resp[w] # None => resp[w].status # 422
            ELSE /\ pc[w] = "done"
                 /\ resp[w].status = 422
                 /\ "z_values" \notin DOMAIN resp[w].body
                 /\ ret[w] = None
                 /\ args[w] = None

\* A request without tension has been answered with 422.
C3_Witness ==
    \E w \in Workers :
        /\ FieldRequest(w) /\ pc[w] = "done"
        /\ req[w].tension = Missing /\ Numeric(req[w].frequency)
        /\ resp[w].status = 422
        /\ <<"tension", "missing">> \in resp[w].body.detail

\* C4: the computation is total: every request whose parameters pass the
\* coercion ends in a success response whose 2500 z_values are all defined
\* numbers, and 422 is the only error outcome of the endpoint.
C4_Total ==
    \A w \in Workers :
        (FieldRequest(w) /\ pc[w] = "done") =>
            /\ resp[w].status \in {200, 422}
            /\ Coercible(w) =>
                /\ Succeeded(w)
                /\ Len(resp[w].body.z_values) = 2500
                /\ \A k \in 1..2500 : IsFinite(resp[w].body.z_values[k])

\* C5: the outcome of a request depends on its own parameters only: any two
\* requests with the same path and query, served by any workers in any
\* interleaving, get the same return value and the same response.
C5_Independent ==
    \A v, w \in Workers :
        (req[v] # None /\ req[v] = req[w]) =>
            /\ (Returned(v) /\ Returned(w)) => ret[v] = ret[w]
            /\ (pc[v] = "done" /\ pc[w] = "done") => resp[v] = resp[w]

\* Two workers have answered the same field request while it was served
\* concurrently.
C5_Witness ==
    \E v, w \in Workers :
        /\ v # w
        /\ Succeeded(v) /\ Succeeded(w)
        /\ req[v] = req[w]
        /\ args[v].frequency # 0

\* C6 as stated: for every tension and frequency the value at each center
\* cell is the amplitude to within 5 per cent, whatever the frequency.
C6_CenterIsAmplitude ==
    \A w \in Workers :
        (Returned(w) /\ IsFinite(args[w].tension) /\ IsFinite(args[w].frequency)) =>
            \A i, j \in Center :
                Abs(ret[w].z_values[i * 50 + j + 1] - Amplitude(args[w].tension))
                    <= Abs(Amplitude(args[w].tension)) \div 20

\* C6 amended: for every tension and every frequency of magnitude at most 1
\* the value at each center cell is the amplitude to within 1 per cent.
C6_CenterSmallFrequency ==
    \A w \in Workers :
        (/\ Returned(w)
         /\ IsFinite(args[w].tension)
         /\ Abs(args[w].frequency) <= Scale) =>
            \A i, j \in Center :
                Abs(ret[w].z_values[i * 50 + j + 1] - ExpectedAmplitude(args[w].tension))
                    <= Abs(ExpectedAmplitude(args[w].tension)) \div 100

\* A field of frequency 1 whose center values are close to the amplitude
\* and not equal to it.
C6_Witness ==
    \E w \in Workers :
        /\ Returned(w)
        /\ args[w].tension = 0 /\ args[w].frequency = Scale
        /\ \A i, j \in Center :
            /\ ret[w].z_values[i * 50 + j + 1] < Scale
            /\ ret[w].z_values[i * 50 + j + 1] >= Scale - Scale \div 100

\* C7: with frequency 0 every one of the 2500 z_values is the amplitude
\* 1.0 - tension*0.9, for any tension; tension 1.0 gives 2500 values 0.1.
C7_ZeroFrequency ==
    \A w \in Workers :
        (Returned(w) /\ args[w].frequency = 0) =>
            /\ Len(ret[w].z_values) = 2500
            /\ \A k \in 1..2500 :
                ret[w].z_values[k] = ExpectedAmplitude(args[w].tension)
            /\ args[w].tension = Scale =>
                \A k \in 1..2500 : ret[w].z_values[k] = Scale \div 10
            /\ pc[w] = "done" =>
                /\ Succeeded(w)
                /\ resp[w].body.z_values = ret[w].z_values

\* tension = 1.0, frequency = 0.0 has been answered with 2500 values 0.1.
C7_Witness ==
    \E w \in Workers :
        /\ Succeeded(w)
        /\ req[w].tension = "1.0" /\ req[w].frequency = "0.0"
        /\ \A k \in 1..2500 : resp[w].body.z_values[k] = Scale \div 10

\* C8: a successful response of GET /api/field carries the coerced tension
\* and frequency of its request unchanged.
C8_Echo ==
    \A w \in Workers :
        (FieldRequest(w) /\ Succeeded(w)) =>
            /\ resp[w].body.tension = FloatLiteral[req[w].tension]
            /\ resp[w].body.frequency = FloatLiteral[req[w].frequency]

\* A successful response echoes a tension above 1 and a negative frequency.
C8_Witness ==
    \E w \in Workers :
        /\ FieldRequest(w) /\ Succeeded(w)
        /\ req[w].tension = "2.0" /\ resp[w].body.tension = 2 * Scale
        /\ req[w].frequency = "-1.0" /\ resp[w].body.frequency = -Scale

\* C9: for tension in [0, 1] the amplitude lies in [0.1, 1.0], and for every
\* frequency every z value is a number with |z| <= amplitude, so that all
\* 2500 outputs lie in [-1, 1].
C9_Bounded ==
    \A w \in Workers :
        (/\ Returned(w)
         /\ 0 <= args[w].tension /\ args[w].tension <= Scale) =>
            LET amplitude == Amplitude(args[w].tension)
            IN  /\ Scale \div 10 <= amplitude /\ amplitude <= Scale
                /\ \A k \in 1..2500 :
                    /\ IsFinite(ret[w].z_values[k])
                    /\ Abs(ret[w].z_values[k]) <= amplitude

\* C10: the field is symmetric under exchange of the axes: the entries at
\* i*50 + j and at j*50 + i are the same, and the opposite mesh indexing
\* (X[i][j] = x[i], Y[i][j] = y[j]) gives the same z_values.
C10_AxisSymmetry ==
    \A w \in Workers :
        Returned(w) =>
            /\ \A i, j \in 0..49 :
                ret[w].z_values[i * 50 + j + 1] = ret[w].z_values[j * 50 + i + 1]
            /\ ret[w].z_values =
                 flatten(Field(args[w].tension, args[w].frequency,
                               Radius([i \in 0..49 |-> [j \in 0..49 |-> x[i]]],
                                      [i \in 0..49 |-> [j \in 0..49 |-> y[j]]])))

\* A field that is not constant: an off-diagonal entry differs from the
\* diagonal entry of its row and equals its mirror image.
C10_Witness ==
    \E w \in Workers :
        /\ Succeeded(w)
        /\ args[w].frequency = 10 * Scale
        /\ ret[w].z_values[3 * 50 + 40 + 1] # ret[w].z_values[3 * 50 + 3 + 1]
        /\ ret[w].z_values[3 * 50 + 40 + 1] = ret[w].z_values[40 * 50 + 3 + 1]

====
